---- MODULE Spec2Model ----
(***************************************************************************)
(* Model of the vanity-registry pallet (pallets/vanity-registry/src/lib.rs).*)
(* State: the two storage maps LockPeriods and Committers, the currency     *)
(* lock the pallet holds on each account under T::ModuleId, the block       *)
(* number of frame_system, and a record of the last dispatched call (its    *)
(* arguments, its DispatchResult and the events it deposited).              *)
(***************************************************************************)
EXTENDS Integers, Sequences, FiniteSets, TLC

\* ---------------------------------------------------------------- bounds
NumAccounts == 2
NumNames == 1
MaxBlock == 3
\* the most rows LockPeriods holds at a time
MaxCommits == 3
\* T::RegisterPeriod, a runtime configuration value (95 in mock.rs); kept
\* small here so that expiry happens within MaxBlock blocks.
RegisterPeriod == 2
\* T::FundToLock as configured in mock.rs
FundToLock == 57
\* The width of the Balance type (u64 in mock.rs), scaled down so that
\* FundToLock * num_of_commits can leave the range of the type.
BalanceBits == 8
MaxBalance == 2 ^ BalanceBits - 1
\* the hashes one account commits in SpecMul
MaxRows == 10

Accounts == 1..NumAccounts
Names == 1..NumNames
\* An origin is a signed account, or 0 for an origin that is not signed.
Origins == Accounts \cup {0}
NumHashes == NumAccounts * NumNames
Hashes == 1..NumHashes

VARIABLES LockPeriods, Committers, locks, now, last, won

\* won is a history variable: for every owned name, the begin of the owner's
\* commit row at the reveal that made it the owner.
vars == <<LockPeriods, Committers, locks, now, last, won>>

\* ------------------------------------------------------------- helpers
\* hash_of(id, name): the hash of 'id concatenated name'; collision free
\* on the accounts and names of the model.
hash_of(id, name) == (id - 1) * NumNames + name

ensure_signed(origin) == origin \in Accounts

\* LockPeriod { begin, end } built by commit
new_lock_period_m(begin) == [begin |-> begin, end |-> RegisterPeriod]
new_lock_period(begin) == [begin |-> begin, end |-> begin + RegisterPeriod]

\* Committer { id, commit }
Committer(id, commit_) == [id |-> id, commit |-> commit_]

\* LockPeriod::default(), what a ValueQuery get returns for a missing key
DefaultLockPeriod == [begin |-> 0, end |-> 0]

\* LockPeriods::<T>::contains_key(id, commit)
has_commit_m(id, commit_) == \E a \in Accounts : <<a, commit_>> \in DOMAIN LockPeriods
has_commit(id, commit_) == <<id, commit_>> \in DOMAIN LockPeriods

\* LockPeriods::<T>::get(id, commit)
get_lock_period(lp, id, commit_) ==
    IF <<id, commit_>> \in DOMAIN lp THEN lp[<<id, commit_>>] ELSE DefaultLockPeriod

\* the precedence test of reveal: revealer_begin < current_begin
takes_over_m(revealer_begin, current_begin) == revealer_begin <= current_begin
takes_over(revealer_begin, current_begin) == revealer_begin < current_begin

\* storage map operations
insert(f, k, v) == [x \in (DOMAIN f) \cup {k} |-> IF x = k THEN v ELSE f[x]]
remove(f, k) == [x \in (DOMAIN f) \ {k} |-> f[x]]

\* the events of the pallet
RegisterSucceeded_m(who, name, prev) ==
    [kind |-> "RegisterSucceeded", who |-> who, name |-> name, prev |-> 0]
RegisterSucceeded(who, name, prev) ==
    [kind |-> "RegisterSucceeded", who |-> who, name |-> name, prev |-> prev]
NameFreed(name) == [kind |-> "NameFreed", who |-> 0, name |-> name, prev |-> 0]

\* the currency lock of an account under T::ModuleId
NoLock == [exists |-> FALSE, amount |-> 0]
Lock(amount) == [exists |-> TRUE, amount |-> amount]

\* LockPeriods::<T>::iter_prefix_values(id).count()
num_of_commits(lp, id) == Cardinality({k \in DOMAIN lp : k[1] = id})

\* update_locked_fund: set_lock(FundToLock * num_of_commits), or remove_lock
\* when the account has no commits.
\* The product is the `*` of the Balance type: it is not a saturating or
\* checked operation, so when the product leaves the range of the type a
\* build without overflow checks wraps it (wrapping_mul) and a build with
\* overflow checks panics (overflows).
wrapping_mul(a, b) == (a * b) % (MaxBalance + 1)
overflows(a, b) == a * b > MaxBalance

update_locked_fund_m(lp, lk, id) ==
    IF num_of_commits(lp, id) > 0
    THEN [lk EXCEPT ![id] = Lock(wrapping_mul(FundToLock, num_of_commits(lp, id)))]
    ELSE lk
update_locked_fund(lp, lk, id) ==
    IF num_of_commits(lp, id) > 0
    THEN [lk EXCEPT ![id] = Lock(wrapping_mul(FundToLock, num_of_commits(lp, id)))]
    ELSE [lk EXCEPT ![id] = NoLock]

Call(op, origin, name, hash, n, result, events) ==
    [op |-> op, origin |-> origin, name |-> name, hash |-> hash, n |-> n,
     result |-> result, events |-> events]

\* ------------------------------------------------------------- state
Init ==
    /\ LockPeriods = << >>
    /\ Committers = << >>
    /\ locks = [a \in Accounts |-> NoLock]
    /\ now = 0
    /\ last = Call("init", 0, 0, 0, 0, "Ok", << >>)
    /\ won = << >>

\* ------------------------------------------------------------- commit
commit(origin, hash) ==
    IF ~ensure_signed(origin)
    THEN /\ last' = Call("commit", origin, 0, hash, now, "BadOrigin", << >>)
         /\ UNCHANGED <<LockPeriods, Committers, locks, now>>
    ELSE LET lp == insert(LockPeriods, <<origin, hash>>, new_lock_period(now)) IN
         /\ Cardinality(DOMAIN lp) <= MaxCommits
         /\ LockPeriods' = lp
         /\ locks' = update_locked_fund(lp, locks, origin)
         /\ last' = Call("commit", origin, 0, hash, now, "Ok", << >>)
         /\ UNCHANGED <<Committers, now>>

\* ------------------------------------------------------------- reveal
Fail(op, origin, name, error) ==
    /\ last' = Call(op, origin, name, 0, now, error, << >>)
    /\ UNCHANGED <<LockPeriods, Committers, locks, now>>

\* a reveal that takes the commit row out of LockPeriods and recomputes the
\* lock of the caller
reveal_m(origin, name) ==
    IF ~ensure_signed(origin) THEN Fail("reveal", origin, name, "BadOrigin")
    ELSE LET who == origin
             commit_ == hash_of(who, name)
             lp == remove(LockPeriods, <<who, commit_>>)
         IN
         IF ~has_commit(who, commit_)
         THEN Fail("reveal", origin, name, "CommitNotFound")
         ELSE IF name \notin DOMAIN Committers
         THEN /\ Committers' = insert(Committers, name, Committer(who, commit_))
              /\ last' = Call("reveal", origin, name, 0, now, "Ok",
                              <<RegisterSucceeded(who, name, 0)>>)
              /\ LockPeriods' = lp
              /\ locks' = update_locked_fund(lp, locks, who)
              /\ UNCHANGED now
         ELSE LET revealer_begin == get_lock_period(LockPeriods, who, commit_).begin
                  current_committer == Committers[name]
                  current_begin == get_lock_period(LockPeriods, current_committer.id,
                                                   current_committer.commit).begin
              IN
              IF ~takes_over(revealer_begin, current_begin)
              THEN Fail("reveal", origin, name, "NameAlreadyTaken")
              ELSE /\ Committers' = [Committers EXCEPT ![name] = Committer(who, commit_)]
                   /\ last' = Call("reveal", origin, name, 0, now, "Ok",
                                   <<RegisterSucceeded(who, name, current_committer.id)>>)
                   /\ LockPeriods' = lp
                   /\ locks' = update_locked_fund(lp, locks, who)
                   /\ UNCHANGED now

\* a reveal that writes the new committer first and tests the precedence
\* afterwards, so that the write stays when the call fails
reveal_late_check(origin, name) ==
    IF ~ensure_signed(origin) THEN Fail("reveal", origin, name, "BadOrigin")
    ELSE LET who == origin
             commit_ == hash_of(who, name)
         IN
         IF ~has_commit(who, commit_)
         THEN Fail("reveal", origin, name, "CommitNotFound")
         ELSE IF name \notin DOMAIN Committers
         THEN /\ Committers' = insert(Committers, name, Committer(who, commit_))
              /\ last' = Call("reveal", origin, name, 0, now, "Ok",
                              <<RegisterSucceeded(who, name, 0)>>)
              /\ UNCHANGED <<LockPeriods, locks, now>>
         ELSE LET revealer_begin == get_lock_period(LockPeriods, who, commit_).begin
                  current_committer == Committers[name]
                  current_begin == get_lock_period(LockPeriods, current_committer.id,
                                                   current_committer.commit).begin
              IN
              /\ Committers' = [Committers EXCEPT ![name] = Committer(who, commit_)]
              /\ last' = IF takes_over(revealer_begin, current_begin)
                         THEN Call("reveal", origin, name, 0, now, "Ok",
                                   <<RegisterSucceeded(who, name, current_committer.id)>>)
                         ELSE Call("reveal", origin, name, 0, now, "NameAlreadyTaken", << >>)
              /\ UNCHANGED <<LockPeriods, locks, now>>

reveal(origin, name) ==
    IF ~ensure_signed(origin) THEN Fail("reveal", origin, name, "BadOrigin")
    ELSE LET who == origin
             commit_ == hash_of(who, name)
         IN
         IF ~has_commit(who, commit_)
         THEN Fail("reveal", origin, name, "CommitNotFound")
         ELSE IF name \notin DOMAIN Committers
         THEN /\ Committers' = insert(Committers, name, Committer(who, commit_))
              /\ last' = Call("reveal", origin, name, 0, now, "Ok",
                              <<RegisterSucceeded(who, name, 0)>>)
              /\ UNCHANGED <<LockPeriods, locks, now>>
         ELSE LET revealer_begin == get_lock_period(LockPeriods, who, commit_).begin
                  current_committer == Committers[name]
                  current_begin == get_lock_period(LockPeriods, current_committer.id,
                                                   current_committer.commit).begin
              IN
              IF ~takes_over(revealer_begin, current_begin)
              THEN Fail("reveal", origin, name, "NameAlreadyTaken")
              ELSE /\ Committers' = [Committers EXCEPT ![name] = Committer(who, commit_)]
                   /\ last' = Call("reveal", origin, name, 0, now, "Ok",
                                   <<RegisterSucceeded(who, name, current_committer.id)>>)
                   /\ UNCHANGED <<LockPeriods, locks, now>>

\* -------------------------------------------------------------- renew
\* a renew that writes a whole new period, as commit does, begin included
renew_m(origin, name) ==
    IF ~ensure_signed(origin) THEN Fail("renew", origin, name, "BadOrigin")
    ELSE IF name \notin DOMAIN Committers
    THEN Fail("renew", origin, name, "NameNotFound")
    ELSE LET committer == Committers[name] IN
         IF committer.id # origin
         THEN Fail("renew", origin, name, "NameNotOwned")
         ELSE IF ~has_commit(committer.id, committer.commit)
         THEN Fail("renew", origin, name, "CommitNotFound")
         ELSE /\ LockPeriods' = [LockPeriods EXCEPT
                     ![<<committer.id, committer.commit>>] = new_lock_period(now)]
              /\ last' = Call("renew", origin, name, 0, now, "Ok", << >>)
              /\ UNCHANGED <<Committers, locks, now>>

renew(origin, name) ==
    IF ~ensure_signed(origin) THEN Fail("renew", origin, name, "BadOrigin")
    ELSE IF name \notin DOMAIN Committers
    THEN Fail("renew", origin, name, "NameNotFound")
    ELSE LET committer == Committers[name] IN
         IF committer.id # origin
         THEN Fail("renew", origin, name, "NameNotOwned")
         ELSE IF ~has_commit(committer.id, committer.commit)
         THEN Fail("renew", origin, name, "CommitNotFound")
         ELSE /\ LockPeriods' = [LockPeriods EXCEPT
                     ![<<committer.id, committer.commit>>].end = now + RegisterPeriod]
              /\ last' = Call("renew", origin, name, 0, now, "Ok", << >>)
              /\ UNCHANGED <<Committers, locks, now>>

\* --------------------------------------------------------- unregister
\* an unregister that removes the name but leaves its commit row
unregister_m(origin, name) ==
    IF ~ensure_signed(origin) THEN Fail("unregister", origin, name, "BadOrigin")
    ELSE IF name \notin DOMAIN Committers
    THEN Fail("unregister", origin, name, "NameNotFound")
    ELSE LET committer == Committers[name] IN
         IF committer.id # origin
         THEN Fail("unregister", origin, name, "NameNotOwned")
         ELSE IF ~has_commit(committer.id, committer.commit)
         THEN Fail("unregister", origin, name, "CommitNotFound")
         ELSE /\ Committers' = remove(Committers, name)
              /\ locks' = update_locked_fund(LockPeriods, locks, origin)
              /\ last' = Call("unregister", origin, name, 0, now, "Ok",
                              <<NameFreed(name)>>)
              /\ UNCHANGED <<LockPeriods, now>>

unregister(origin, name) ==
    IF ~ensure_signed(origin) THEN Fail("unregister", origin, name, "BadOrigin")
    ELSE IF name \notin DOMAIN Committers
    THEN Fail("unregister", origin, name, "NameNotFound")
    ELSE LET committer == Committers[name] IN
         IF committer.id # origin
         THEN Fail("unregister", origin, name, "NameNotOwned")
         ELSE IF ~has_commit(committer.id, committer.commit)
         THEN Fail("unregister", origin, name, "CommitNotFound")
         ELSE LET lp == remove(LockPeriods, <<committer.id, committer.commit>>) IN
              /\ LockPeriods' = lp
              /\ Committers' = remove(Committers, name)
              /\ locks' = update_locked_fund(lp, locks, origin)
              /\ last' = Call("unregister", origin, name, 0, now, "Ok",
                              <<NameFreed(name)>>)
              /\ UNCHANGED now

\* -------------------------------------------------------- on_finalize
\* The keys of LockPeriods in iteration order. The storage iterates in the
\* order of its hashed keys; the model fixes the order (account, commit).
KeyAt(i) == <<((i - 1) \div NumHashes) + 1, ((i - 1) % NumHashes) + 1>>
AllKeys == [i \in 1..(NumAccounts * NumHashes) |-> KeyAt(i)]

\* the (id, commit) pairs whose lock period is over at block n
expired_commit_ids_m(lp, n) ==
    SelectSeq(AllKeys, LAMBDA k : k \in DOMAIN lp /\ lp[k].end < n)
expired_commit_ids(lp, n) ==
    SelectSeq(AllKeys, LAMBDA k : k \in DOMAIN lp /\ lp[k].end <= n)

\* for each expired commit: remove the row, then update the lock of its account
RECURSIVE remove_each(_, _, _)
remove_each(ids, lp, lk) ==
    IF ids = << >> THEN [lp |-> lp, lk |-> lk]
    ELSE LET c == Head(ids)
             lp2 == remove(lp, c)
         IN remove_each(Tail(ids), lp2, update_locked_fund(lp2, lk, c[1]))

remove_expired_commits(lp, lk, n) == remove_each(expired_commit_ids(lp, n), lp, lk)

\* The name (if any) whose committer is (id, commit): a set with at most
\* one element, the first match of the iteration.
associated_name_m(cm, id, commit_) == {}
associated_name_byid(cm, id, commit_) ==
    IF \E x \in DOMAIN cm : cm[x].id = id
    THEN {CHOOSE x \in DOMAIN cm : cm[x].id = id}
    ELSE {}
associated_name(cm, id, commit_) ==
    IF \E x \in DOMAIN cm : cm[x] = Committer(id, commit_)
    THEN {CHOOSE x \in DOMAIN cm : cm[x] = Committer(id, commit_)}
    ELSE {}

\* as free_each, without the deposit of NameFreed
RECURSIVE free_each_m(_, _, _)
free_each_m(ids, cm, ev) ==
    IF ids = << >> THEN [cm |-> cm, ev |-> ev]
    ELSE LET c == Head(ids)
             name == associated_name(cm, c[1], c[2])
         IN IF name = {} THEN free_each_m(Tail(ids), cm, ev)
            ELSE LET x == CHOOSE y \in name : TRUE
                 IN free_each_m(Tail(ids), remove(cm, x), ev)

\* for each expired commit: remove the associated name and deposit NameFreed
RECURSIVE free_each(_, _, _)
free_each(ids, cm, ev) ==
    IF ids = << >> THEN [cm |-> cm, ev |-> ev]
    ELSE LET c == Head(ids)
             name == associated_name(cm, c[1], c[2])
         IN IF name = {} THEN free_each(Tail(ids), cm, ev)
            ELSE LET x == CHOOSE y \in name : TRUE
                 IN free_each(Tail(ids), remove(cm, x), Append(ev, NameFreed(x)))

\* on_finalize(n) of block n = now, after which the host starts block n + 1.
on_finalize ==
    /\ now < MaxBlock
    /\ LET expired_commits == expired_commit_ids(LockPeriods, now)
           r == remove_expired_commits(LockPeriods, locks, now)
           f == free_each(expired_commits, Committers, << >>)
       IN /\ LockPeriods' = r.lp
          /\ locks' = r.lk
          /\ Committers' = f.cm
          /\ last' = Call("on_finalize", 0, 0, 0, now, "Ok", f.ev)
    /\ now' = now + 1

\* ------------------------------------------------------ specification
\* a step of the system: a dispatched call or the finalization of a block
commit_op(origin, hash) == commit(origin, hash) /\ UNCHANGED won
reveal_op(origin, name) == reveal(origin, name) /\ UNCHANGED won
renew_op(origin, name) == renew(origin, name) /\ UNCHANGED won
unregister_op(origin, name) == unregister(origin, name) /\ UNCHANGED won
on_finalize_op == on_finalize /\ UNCHANGED won

Next ==
    \/ \E o \in Origins, h \in Hashes : commit_op(o, h)
    \/ \E o \in Origins, x \in Names : reveal_op(o, x)
    \/ \E o \in Origins, x \in Names : renew_op(o, x)
    \/ \E o \in Origins, x \in Names : unregister_op(o, x)
    \/ on_finalize_op

Spec == Init /\ [][Next]_vars

\* ------------------------------------------- the system with its history
\* The history of each step: a name keeps its entry in won while its owner
\* record stays; a name that got a new owner record gets the begin of that
\* owner's commit row.
WonUpdate ==
    won' = [x \in DOMAIN Committers' |->
               IF x \in DOMAIN Committers /\ Committers'[x] = Committers[x]
               THEN won[x]
               ELSE get_lock_period(LockPeriods', Committers'[x].id,
                                    Committers'[x].commit).begin]

commit_step(origin, hash) == commit(origin, hash) /\ WonUpdate
reveal_step(origin, name) == reveal(origin, name) /\ WonUpdate
renew_step(origin, name) == renew(origin, name) /\ WonUpdate
unregister_step(origin, name) == unregister(origin, name) /\ WonUpdate
on_finalize_step == on_finalize /\ WonUpdate

NextWon ==
    \/ \E o \in Origins, h \in Hashes : commit_step(o, h)
    \/ \E o \in Origins, x \in Names : reveal_step(o, x)
    \/ \E o \in Origins, x \in Names : renew_step(o, x)
    \/ \E o \in Origins, x \in Names : unregister_step(o, x)
    \/ on_finalize_step

SpecWon == Init /\ [][NextWon]_vars

TypeOK ==
    /\ DOMAIN LockPeriods \subseteq Accounts \X Hashes
    /\ DOMAIN Committers \subseteq Names
    /\ now \in 0..MaxBlock
    /\ DOMAIN won \subseteq DOMAIN Committers
    /\ \A a \in Accounts : ~overflows(FundToLock, num_of_commits(LockPeriods, a))

\* ------------------------------------------- many commits of one account
\* commit(hash) of an account with many commit rows, as built without
\* overflow checks: the product in update_locked_fund wraps.
commit_release(origin, hash) ==
    LET lp == insert(LockPeriods, <<origin, hash>>, new_lock_period(now)) IN
    /\ LockPeriods' = lp
    /\ locks' = update_locked_fund(lp, locks, origin)
    /\ last' = Call("commit", origin, 0, hash, now, "Ok", << >>)
    /\ UNCHANGED <<Committers, now, won>>

\* the same call as built with overflow checks: when the product overflows
\* the call panics and its storage changes are discarded.
commit_debug(origin, hash) ==
    LET lp == insert(LockPeriods, <<origin, hash>>, new_lock_period(now)) IN
    /\ overflows(FundToLock, num_of_commits(lp, origin))
    /\ last' = Call("commit", origin, 0, hash, now, "Panic", << >>)
    /\ UNCHANGED <<LockPeriods, Committers, locks, now, won>>

NextMul ==
    \/ \E h \in 1..MaxRows : commit_release(1, h)
    \/ \E h \in 1..MaxRows : commit_debug(1, h)

SpecMul == Init /\ [][NextMul]_vars

\* ============================================================== claims
\* the key of the commit row that reveal(name) by account c looks up
RevealKey(c, x) == <<c, hash_of(c, x)>>

\* the call recorded in last' is reveal(x) dispatched by the signed account c
IsReveal(c, x) == last'.op = "reveal" /\ last'.origin = c /\ last'.name = x

\* reveal(x) by c, who holds the matching commit row, while x has an owner
\* whose commit row is present
RevealOnOwned(c, x) ==
    /\ IsReveal(c, x)
    /\ RevealKey(c, x) \in DOMAIN LockPeriods
    /\ x \in DOMAIN Committers
    /\ <<Committers[x].id, Committers[x].commit>> \in DOMAIN LockPeriods

b_new(c, x) == LockPeriods[RevealKey(c, x)].begin
b_old(x) == LockPeriods[<<Committers[x].id, Committers[x].commit>>].begin

\* C1: in every state (after every completed commit, reveal, renew,
\* unregister and on_finalize) the lock of every account equals FundToLock
\* times the number of its LockPeriods rows, and the account has no lock at
\* all when it has no row.
C1_LockMatchesCommits ==
    \A a \in Accounts :
        LET k == Cardinality({key \in DOMAIN LockPeriods : key[1] = a}) IN
        IF k = 0 THEN locks[a] = NoLock
        ELSE locks[a] = [exists |-> TRUE, amount |-> FundToLock * k]

\* a second commit of an account has raised its lock to 2 * FundToLock
C1_Witness ==
    /\ last.op = "commit" /\ last.result = "Ok"
    /\ Cardinality({key \in DOMAIN LockPeriods : key[1] = last.origin}) = 2
    /\ locks[last.origin] = [exists |-> TRUE, amount |-> 2 * FundToLock]

\* C2: when c reveals x holding a commit row that begins at b_new, and x has
\* an owner whose lock period begins at b_old, then c (if not already the
\* owner) is the owner afterwards iff b_new < b_old, and when b_new >= b_old
\* (the tie included) the ownership record is exactly what it was.
C2_EarlierCommitWins ==
    [][\A c \in Accounts, x \in Names :
        RevealOnOwned(c, x) =>
            /\ x \in DOMAIN Committers'
            /\ (Committers[x].id # c =>
                   (Committers'[x].id = c <=> b_new(c, x) < b_old(x)))
            /\ (b_new(c, x) < b_old(x) =>
                   Committers'[x] = [id |-> c, commit |-> hash_of(c, x)])
            /\ (b_new(c, x) >= b_old(x) => Committers'[x] = Committers[x])]_vars

\* a reveal has taken a name over from its previous owner
C2_Witness ==
    /\ last.op = "reveal" /\ last.result = "Ok"
    /\ Len(last.events) = 1
    /\ last.events[1].prev \in Accounts \ {last.origin}
    /\ Committers[last.name].id = last.origin

\* C3 as stated: after every reveal that returns Ok the row
\* LockPeriods[caller, hash_of(caller, name)] is absent.
C3_RevealConsumesCommit ==
    [][\A c \in Accounts, x \in Names :
        (IsReveal(c, x) /\ last'.result = "Ok") =>
            RevealKey(c, x) \notin DOMAIN LockPeriods']_vars

\* C3 amended: every reveal that returns Ok leaves LockPeriods as it was, so
\* the row LockPeriods[caller, hash_of(caller, name)] is still present.
C3_RevealKeepsCommit ==
    [][\A c \in Accounts, x \in Names :
        (IsReveal(c, x) /\ last'.result = "Ok") =>
            /\ RevealKey(c, x) \in DOMAIN LockPeriods'
            /\ LockPeriods' = LockPeriods]_vars

\* a reveal returned Ok and the commit row of the caller is still there
C3_Witness ==
    /\ last.op = "reveal" /\ last.result = "Ok"
    /\ <<last.origin, hash_of(last.origin, last.name)>> \in DOMAIN LockPeriods

\* C4 as stated: a reveal whose commit began at or after the begin of the
\* owner's period returns Ok and deposits RevealDiscredited(name, caller).
C4_LateRevealDiscredited ==
    [][\A c \in Accounts, x \in Names :
        (RevealOnOwned(c, x) /\ b_old(x) <= b_new(c, x)) =>
            /\ last'.result = "Ok"
            /\ \E i \in DOMAIN last'.events :
                   /\ last'.events[i].kind = "RevealDiscredited"
                   /\ last'.events[i].name = x
                   /\ last'.events[i].who = c]_vars

\* C4 amended: such a reveal is reported as the error NameAlreadyTaken and
\* deposits no event.
C4_LateRevealIsError ==
    [][\A c \in Accounts, x \in Names :
        (RevealOnOwned(c, x) /\ b_old(x) <= b_new(c, x)) =>
            /\ last'.result = "NameAlreadyTaken"
            /\ last'.events = << >>]_vars

\* a reveal against another account's ownership with the same begin (the
\* tie) was rejected
C4_Witness ==
    /\ last.op = "reveal" /\ last.result = "NameAlreadyTaken"
    /\ last.name \in DOMAIN Committers
    /\ Committers[last.name].id # last.origin
    /\ LockPeriods[<<last.origin, hash_of(last.origin, last.name)>>].begin
         = LockPeriods[<<Committers[last.name].id, Committers[last.name].commit>>].begin

\* C5: a reveal whose commit began at or after the begin of the owner's
\* period fails with NameAlreadyTaken and leaves LockPeriods, Committers and
\* every lock unchanged.
C5_LateRevealFailsNoop ==
    [][\A c \in Accounts, x \in Names :
        (RevealOnOwned(c, x) /\ b_new(c, x) >= b_old(x)) =>
            /\ last'.result = "NameAlreadyTaken"
            /\ LockPeriods' = LockPeriods
            /\ Committers' = Committers
            /\ locks' = locks]_vars

\* a reveal with a strictly later commit than the owner's was rejected
C5_Witness ==
    /\ last.op = "reveal" /\ last.result = "NameAlreadyTaken"
    /\ last.name \in DOMAIN Committers
    /\ LockPeriods[<<last.origin, hash_of(last.origin, last.name)>>].begin
         > LockPeriods[<<Committers[last.name].id, Committers[last.name].commit>>].begin

\* C6: commit(h) by a signed account c at block now returns Ok and leaves
\* LockPeriods[c, h] = {now, now + RegisterPeriod}, whether or not the row
\* existed and whether or not h is the commit of an owned name.
C6_CommitSetsPeriod ==
    [][\A c \in Accounts, h \in Hashes :
        (last'.op = "commit" /\ last'.origin = c /\ last'.hash = h) =>
            /\ last'.result = "Ok"
            /\ <<c, h>> \in DOMAIN LockPeriods'
            /\ LockPeriods'[<<c, h>>] = [begin |-> now, end |-> now + RegisterPeriod]]_vars

\* the owner of a name has committed the hash of that name again at a later
\* block, and the row carries the new window
C6_Witness ==
    /\ last.op = "commit" /\ last.result = "Ok" /\ now > 0
    /\ \E x \in DOMAIN Committers :
          /\ Committers[x] = [id |-> last.origin, commit |-> last.hash]
          /\ LockPeriods[<<last.origin, last.hash>>].begin = now

\* C7 as stated: a reveal of an unowned name by the holder of the commit row
\* returns Ok, records {caller, hash_of(caller, name)} as the owner, and the
\* lock period of that commit is unchanged with end = begin + RegisterPeriod.
C7_RevealAssignsCommitPeriod ==
    [][\A c \in Accounts, x \in Names :
        (IsReveal(c, x) /\ RevealKey(c, x) \in DOMAIN LockPeriods
                        /\ x \notin DOMAIN Committers) =>
            /\ last'.result = "Ok"
            /\ x \in DOMAIN Committers'
            /\ Committers'[x] = [id |-> c, commit |-> hash_of(c, x)]
            /\ RevealKey(c, x) \in DOMAIN LockPeriods'
            /\ LockPeriods'[RevealKey(c, x)] = LockPeriods[RevealKey(c, x)]
            /\ LockPeriods'[RevealKey(c, x)].end
                 = LockPeriods'[RevealKey(c, x)].begin + RegisterPeriod]_vars

\* C7 amended: such a reveal returns Ok, records {caller, hash_of(caller,
\* name)} as the owner and leaves the commit row exactly as it stood before
\* the reveal; its end is at least begin + RegisterPeriod (later when an
\* earlier renew moved it).
C7_RevealAssignsUnshifted ==
    [][\A c \in Accounts, x \in Names :
        (IsReveal(c, x) /\ RevealKey(c, x) \in DOMAIN LockPeriods
                        /\ x \notin DOMAIN Committers) =>
            /\ last'.result = "Ok"
            /\ x \in DOMAIN Committers'
            /\ Committers'[x] = [id |-> c, commit |-> hash_of(c, x)]
            /\ RevealKey(c, x) \in DOMAIN LockPeriods'
            /\ LockPeriods'[RevealKey(c, x)] = LockPeriods[RevealKey(c, x)]
            /\ LockPeriods'[RevealKey(c, x)].end
                 >= LockPeriods'[RevealKey(c, x)].begin + RegisterPeriod]_vars

\* an unowned name was revealed at a block after the commit, and the period
\* still starts at the commit block
C7_Witness ==
    /\ last.op = "reveal" /\ last.result = "Ok"
    /\ Len(last.events) = 1 /\ last.events[1].prev = 0
    /\ Committers[last.name] = [id |-> last.origin,
                                commit |-> hash_of(last.origin, last.name)]
    /\ LockPeriods[<<last.origin, hash_of(last.origin, last.name)>>].begin < now

\* C8: reveal(x) by a signed account c fails with CommitNotFound whenever
\* LockPeriods has no row (c, hash_of(c, x)); the failed reveal changes no
\* storage row and no lock and deposits no event.
C8_RevealWithoutCommit ==
    [][\A c \in Accounts, x \in Names :
        (IsReveal(c, x) /\ RevealKey(c, x) \notin DOMAIN LockPeriods) =>
            /\ last'.result = "CommitNotFound"
            /\ last'.events = << >>
            /\ LockPeriods' = LockPeriods
            /\ Committers' = Committers
            /\ locks' = locks]_vars

\* the caller had only committed the hash computed for another account and
\* its reveal failed with CommitNotFound
C8_Witness ==
    /\ last.op = "reveal" /\ last.result = "CommitNotFound"
    /\ \E a \in Accounts \ {last.origin} :
          <<last.origin, hash_of(a, last.name)>> \in DOMAIN LockPeriods

\* C9 as stated: after a reveal that returns Ok the lock of the caller is
\* FundToLock lower than before, and the caller has no lock left when the
\* revealed commit was its only row.
C9_RevealReleasesCollateral ==
    [][\A c \in Accounts, x \in Names :
        (IsReveal(c, x) /\ last'.result = "Ok") =>
            /\ locks'[c].amount = locks[c].amount - FundToLock
            /\ (Cardinality({key \in DOMAIN LockPeriods : key[1] = c}) = 1
                   => locks'[c] = NoLock)]_vars

\* C9 amended: a reveal that returns Ok leaves every lock as it was; the
\* caller still has at least FundToLock locked.
C9_RevealKeepsCollateral ==
    [][\A c \in Accounts, x \in Names :
        (IsReveal(c, x) /\ last'.result = "Ok") =>
            /\ locks' = locks
            /\ locks'[c].exists
            /\ locks'[c].amount >= FundToLock]_vars

\* a straight commit then reveal: the only commit of the caller was
\* revealed and FundToLock is still locked
C9_Witness ==
    /\ last.op = "reveal" /\ last.result = "Ok"
    /\ Cardinality({key \in DOMAIN LockPeriods : key[1] = last.origin}) = 1
    /\ locks[last.origin] = [exists |-> TRUE, amount |-> FundToLock]

\* C10: in every state the owner of a name has at least FundToLock locked,
\* and the commit row behind an ownership (hence its collateral) goes away
\* only in the unregister of that name by its owner or in an on_finalize at
\* which the row had expired, the ownership going with it.
C10_CollateralWhileOwned ==
    /\ [](\A x \in DOMAIN Committers :
            /\ locks[Committers[x].id].exists
            /\ locks[Committers[x].id].amount >= FundToLock)
    /\ [][\A x \in DOMAIN Committers :
            LET key == <<Committers[x].id, Committers[x].commit>> IN
            (key \in DOMAIN LockPeriods /\ key \notin DOMAIN LockPeriods') =>
                /\ x \notin DOMAIN Committers'
                /\ \/ /\ last'.op = "unregister" /\ last'.result = "Ok"
                      /\ last'.origin = Committers[x].id /\ last'.name = x
                   \/ /\ last'.op = "on_finalize"
                      /\ LockPeriods[key].end <= last'.n]_vars

\* a name is still owned after a finalization sweep that freed nothing, and
\* its owner's collateral is still locked
C10_Witness ==
    /\ last.op = "on_finalize" /\ last.n >= 1 /\ last.events = << >>
    /\ \E x \in DOMAIN Committers :
          locks[Committers[x].id] = [exists |-> TRUE, amount |-> FundToLock]

\* the call recorded in last' is renew(x) dispatched by the signed account c
IsRenew(c, x) == last'.op = "renew" /\ last'.origin = c /\ last'.name = x

\* the key of the commit row behind the ownership of x
OwnerKey(x) == <<Committers[x].id, Committers[x].commit>>

\* C11: a renew(x) that returns Ok at block r sets the end of the lock
\* period of x's ownership to r + RegisterPeriod and leaves its begin as it
\* was; no renew, Ok or not, changes the begin of any lock period.
C11_RenewMovesOnlyEnd ==
    [][\A c \in Origins, x \in Names :
        IsRenew(c, x) =>
            /\ DOMAIN LockPeriods' = DOMAIN LockPeriods
            /\ \A k \in DOMAIN LockPeriods : LockPeriods'[k].begin = LockPeriods[k].begin
            /\ (last'.result = "Ok" =>
                   /\ x \in DOMAIN Committers /\ OwnerKey(x) \in DOMAIN LockPeriods
                   /\ Committers' = Committers
                   /\ LockPeriods'[OwnerKey(x)].end = now + RegisterPeriod)]_vars

\* a name committed at an earlier block was renewed: its period keeps the
\* begin of the commit and ends RegisterPeriod after the renew
C11_Witness ==
    /\ last.op = "renew" /\ last.result = "Ok"
    /\ LockPeriods[<<last.origin, hash_of(last.origin, last.name)>>].begin < now
    /\ LockPeriods[<<last.origin, hash_of(last.origin, last.name)>>].end
         = now + RegisterPeriod

\* C12 as stated: renew leaves the LockPeriods map unchanged (no row added,
\* removed or modified) and every lock unchanged.
C12_RenewLeavesLockPeriods ==
    [][\A c \in Origins, x \in Names :
        IsRenew(c, x) => (LockPeriods' = LockPeriods /\ locks' = locks)]_vars

\* C12 amended: renew adds and removes no LockPeriods row and leaves every
\* lock unchanged; the one row it may modify is the row behind the ownership
\* of the renewed name, and of that row only the end.
C12_RenewKeepsRowsAndLocks ==
    [][\A c \in Origins, x \in Names :
        IsRenew(c, x) =>
            /\ locks' = locks
            /\ DOMAIN LockPeriods' = DOMAIN LockPeriods
            /\ \A k \in DOMAIN LockPeriods :
                  \/ LockPeriods'[k] = LockPeriods[k]
                  \/ /\ last'.result = "Ok"
                     /\ x \in DOMAIN Committers /\ k = OwnerKey(x)
                     /\ LockPeriods'[k] = [LockPeriods[k] EXCEPT !.end = LockPeriods'[k].end]]_vars

\* a renew returned Ok while another account holds a commit row too; the
\* owner still has exactly FundToLock locked
C12_Witness ==
    /\ last.op = "renew" /\ last.result = "Ok"
    /\ locks[last.origin] = [exists |-> TRUE, amount |-> FundToLock]
    /\ \E k \in DOMAIN LockPeriods : k[1] # last.origin

\* C13: for a signed caller c and any name x, renew(x) and unregister(x)
\* fail with NameNotFound iff x has no owner, fail with NameNotOwned iff x is
\* owned by another account, and return Ok in every other case.
C13_OwnershipErrors ==
    [][\A c \in Accounts, x \in Names :
        (last'.op \in {"renew", "unregister"} /\ last'.origin = c /\ last'.name = x) =>
            /\ (last'.result = "NameNotFound" <=> x \notin DOMAIN Committers)
            /\ (last'.result = "NameNotOwned" <=>
                   (x \in DOMAIN Committers /\ Committers[x].id # c))
            /\ (last'.result = "Ok" <=>
                   (x \in DOMAIN Committers /\ Committers[x].id = c))
            /\ last'.result \in {"NameNotFound", "NameNotOwned", "Ok"}]_vars

\* a renew by an account that is not the owner was rejected with NameNotOwned
C13_Witness ==
    /\ last.op = "renew" /\ last.result = "NameNotOwned"
    /\ last.name \in DOMAIN Committers
    /\ Committers[last.name].id # last.origin

\* C14: after an unregister(x) that returns Ok for its owner c, x has no
\* owner, LockPeriods has no row (c, hash_of(c, x)), c has one row less
\* than before and its lock is FundToLock times its remaining rows (no lock
\* when none remains); this holds whether or not c committed the hash again
\* after its reveal.
C14_UnregisterReleases ==
    [][\A c \in Accounts, x \in Names :
        (last'.op = "unregister" /\ last'.origin = c /\ last'.name = x
                                 /\ last'.result = "Ok") =>
            LET k == Cardinality({key \in DOMAIN LockPeriods' : key[1] = c}) IN
            /\ x \notin DOMAIN Committers'
            /\ RevealKey(c, x) \notin DOMAIN LockPeriods'
            /\ k = Cardinality({key \in DOMAIN LockPeriods : key[1] = c}) - 1
            /\ locks'[c] = IF k = 0 THEN NoLock
                           ELSE [exists |-> TRUE, amount |-> FundToLock * k]]_vars

\* an owner with a second commit row unregistered its name: the name is
\* free, the row of the name is gone and FundToLock stays locked for the
\* remaining row
C14_Witness ==
    /\ last.op = "unregister" /\ last.result = "Ok"
    /\ last.name \notin DOMAIN Committers
    /\ <<last.origin, hash_of(last.origin, last.name)>> \notin DOMAIN LockPeriods
    /\ Cardinality({key \in DOMAIN LockPeriods : key[1] = last.origin}) = 1
    /\ locks[last.origin] = [exists |-> TRUE, amount |-> FundToLock]

\* C15: in the state in which on_finalize(n) returns, no LockPeriods row has
\* end <= n and every ownership is backed by a row whose end > n.
C15_SweepLeavesNoExpired ==
    last.op = "on_finalize" =>
        /\ \A k \in DOMAIN LockPeriods : LockPeriods[k].end > last.n
        /\ \A x \in DOMAIN Committers :
              /\ OwnerKey(x) \in DOMAIN LockPeriods
              /\ LockPeriods[OwnerKey(x)].end > last.n

\* a sweep has removed an expired ownership and left no owner
C15_Witness ==
    /\ last.op = "on_finalize"
    /\ Len(last.events) = 1
    /\ Committers = << >>

\* C16: on_finalize(n) leaves every LockPeriods row with end > n, and every
\* ownership whose row has end > n, in place and unchanged.
C16_SweepKeepsLive ==
    [][last'.op = "on_finalize" =>
        /\ \A k \in DOMAIN LockPeriods :
              LockPeriods[k].end > now =>
                  (k \in DOMAIN LockPeriods' /\ LockPeriods'[k] = LockPeriods[k])
        /\ \A x \in DOMAIN Committers :
              (OwnerKey(x) \in DOMAIN LockPeriods /\ LockPeriods[OwnerKey(x)].end > now) =>
                  (x \in DOMAIN Committers' /\ Committers'[x] = Committers[x])]_vars

\* a sweep that removed an expired row (it freed the name of that row) has
\* kept a row that ends at the next block
C16_Witness ==
    /\ last.op = "on_finalize"
    /\ Len(last.events) >= 1
    /\ \E k \in DOMAIN LockPeriods : LockPeriods[k].end = last.n + 1

\* C17: every call that fails (any result other than Ok: BadOrigin,
\* CommitNotFound, NameAlreadyTaken, NameNotFound, NameNotOwned) leaves
\* LockPeriods, Committers and every lock as they were and deposits no event.
C17_FailureIsNoop ==
    [][last'.result # "Ok" =>
        /\ LockPeriods' = LockPeriods
        /\ Committers' = Committers
        /\ locks' = locks
        /\ last'.events = << >>]_vars

\* a call with an origin that is not signed failed with BadOrigin in a state
\* with a commit row and an owner
C17_Witness ==
    /\ last.result = "BadOrigin" /\ last.origin = 0
    /\ LockPeriods # << >>
    /\ Committers # << >>

\* C18 as stated: in every state every stored lock period satisfies
\* end = begin + RegisterPeriod.
C18_PeriodIsRegisterPeriod ==
    \A k \in DOMAIN LockPeriods :
        LockPeriods[k].end = LockPeriods[k].begin + RegisterPeriod

\* C18 amended: in every state every stored lock period satisfies
\* end >= begin + RegisterPeriod, and a row whose end is later than
\* begin + RegisterPeriod either was so before the step or is the row behind
\* the name that the step renewed.
C18_PeriodAtLeastRegisterPeriod ==
    /\ [](\A k \in DOMAIN LockPeriods :
            LockPeriods[k].end >= LockPeriods[k].begin + RegisterPeriod)
    /\ [][\A k \in DOMAIN LockPeriods' :
            \/ LockPeriods'[k].end = LockPeriods'[k].begin + RegisterPeriod
            \/ k \in DOMAIN LockPeriods /\ LockPeriods'[k] = LockPeriods[k]
            \/ /\ last'.op = "renew" /\ last'.result = "Ok"
               /\ k = <<last'.origin, hash_of(last'.origin, last'.name)>>
               /\ LockPeriods'[k].end = now + RegisterPeriod]_vars

\* a renew at a block after the commit has left a period longer than
\* RegisterPeriod
C18_Witness ==
    /\ last.op = "renew" /\ last.result = "Ok"
    /\ \E k \in DOMAIN LockPeriods :
          LockPeriods[k].end > LockPeriods[k].begin + RegisterPeriod

\* C19: in every step, NameFreed(x) is deposited once if the step removed
\* the ownership of x (an unregister or the expiry in on_finalize) and not
\* at all otherwise, and no other call than unregister and on_finalize
\* removes an ownership.
C19_NameFreedOncePerRemoval ==
    [][\A x \in Names :
        LET removed == x \in DOMAIN Committers /\ x \notin DOMAIN Committers'
            freed == {i \in DOMAIN last'.events :
                         /\ last'.events[i].kind = "NameFreed"
                         /\ last'.events[i].name = x}
        IN /\ Cardinality(freed) = IF removed THEN 1 ELSE 0
           /\ removed => last'.op \in {"unregister", "on_finalize"}]_vars

\* an unregister has removed an ownership and deposited NameFreed once
C19_Witness ==
    /\ last.op = "unregister" /\ last.result = "Ok"
    /\ last.events = <<[kind |-> "NameFreed", who |-> 0, name |-> last.name, prev |-> 0]>>
    /\ last.name \notin DOMAIN Committers

\* C20 as stated: for every LockPeriods row (a, h) that on_finalize removes,
\* on_finalize deposits CommitExpired(h, a).
C20_CommitExpiredEmitted ==
    [][last'.op = "on_finalize" =>
        \A k \in (DOMAIN LockPeriods) \ (DOMAIN LockPeriods') :
            \E i \in DOMAIN last'.events :
                /\ last'.events[i].kind = "CommitExpired"
                /\ last'.events[i].who = k[1]]_vars

\* C20 amended: on_finalize deposits no event for an expired row as such;
\* its events are NameFreed only, one for each name whose committer is a
\* removed row and none for any other name.
C20_ExpiryEmitsOnlyNameFreed ==
    [][last'.op = "on_finalize" =>
        LET gone == (DOMAIN LockPeriods) \ (DOMAIN LockPeriods') IN
        /\ \A i \in DOMAIN last'.events : last'.events[i].kind = "NameFreed"
        /\ Len(last'.events) <= Cardinality(gone)
        /\ \A x \in Names :
              (\E i \in DOMAIN last'.events : last'.events[i].name = x)
                 <=> (x \in DOMAIN Committers /\ OwnerKey(x) \in gone)]_vars

\* a sweep has removed the last commit rows, released every lock and
\* deposited NameFreed only
C20_Witness ==
    /\ last.op = "on_finalize"
    /\ Len(last.events) = 1 /\ last.events[1].kind = "NameFreed"
    /\ LockPeriods = << >>
    /\ \A a \in Accounts : locks[a] = NoLock

\* C22 as stated: a commit changes no ownership: Committers is as it was and
\* the lock period behind every owned name keeps its begin and its end, also
\* when the owner of a name commits the hash of that name again.
C22_CommitKeepsOwnership ==
    [][last'.op = "commit" =>
        /\ Committers' = Committers
        /\ \A x \in DOMAIN Committers :
              OwnerKey(x) \in DOMAIN LockPeriods =>
                  /\ OwnerKey(x) \in DOMAIN LockPeriods'
                  /\ LockPeriods'[OwnerKey(x)] = LockPeriods[OwnerKey(x)]]_vars

\* C23: in every state every owner record {id, commit} has its row
\* (id, commit) in LockPeriods, and no renew or unregister has returned
\* CommitNotFound.
C23_OwnerHasCommitRow ==
    /\ \A x \in DOMAIN Committers : OwnerKey(x) \in DOMAIN LockPeriods
    /\ last.result = "CommitNotFound" => last.op = "reveal"

\* after a take-over both the new owner and the account that lost the name
\* hold their commit rows
C23_Witness ==
    /\ last.op = "reveal" /\ last.result = "Ok"
    /\ Len(last.events) = 1 /\ last.events[1].prev \in Accounts
    /\ OwnerKey(last.name) \in DOMAIN LockPeriods
    /\ <<last.events[1].prev, hash_of(last.events[1].prev, last.name)>>
          \in DOMAIN LockPeriods

\* C24 as stated: a row whose commit was made at block b (its begin, as only
\* commit writes begin) is gone after on_finalize(n) for every
\* n >= b + RegisterPeriod, whatever reveals and renews happened.
C24_CollateralHeldAtMostRegisterPeriod ==
    last.op = "on_finalize" =>
        \A k \in DOMAIN LockPeriods :
            LockPeriods[k].begin + RegisterPeriod > last.n

\* C24 amended: after on_finalize(n) a row whose commit was made at a block
\* b <= n - RegisterPeriod is left only if a renew moved its end past
\* b + RegisterPeriod and past n, and then its account still has at least
\* FundToLock locked; a row that was not renewed is gone and the lock of its
\* account is FundToLock times the remaining rows.
C24_CollateralHeldUntilEnd ==
    last.op = "on_finalize" =>
        /\ \A k \in DOMAIN LockPeriods :
              LockPeriods[k].begin + RegisterPeriod <= last.n =>
                  /\ LockPeriods[k].end > LockPeriods[k].begin + RegisterPeriod
                  /\ LockPeriods[k].end > last.n
                  /\ locks[k[1]].exists /\ locks[k[1]].amount >= FundToLock
        /\ \A a \in Accounts :
              locks[a].amount
                 = FundToLock * Cardinality({k \in DOMAIN LockPeriods : k[1] = a})

\* a renewed row has outlived the RegisterPeriod that followed its commit
C24_Witness ==
    /\ last.op = "on_finalize"
    /\ \E k \in DOMAIN LockPeriods :
          /\ LockPeriods[k].begin + RegisterPeriod <= last.n
          /\ locks[k[1]] = [exists |-> TRUE, amount |-> FundToLock]

\* C26: a reveal(x) by c that assigns the ownership of x to c deposits
\* exactly one event, RegisterSucceeded(c, x, p), where p is the account
\* that owned x right before the reveal, or none (0) when x had no owner; a
\* reveal that assigns no ownership deposits no event.
C26_OneRegisterEventPerAssignment ==
    [][\A c \in Origins, x \in Names :
        IsReveal(c, x) =>
            LET assigned == /\ x \in DOMAIN Committers'
                            /\ Committers'[x] = [id |-> c, commit |-> hash_of(c, x)]
                            /\ (x \in DOMAIN Committers => Committers'[x] # Committers[x])
                p == IF x \in DOMAIN Committers THEN Committers[x].id ELSE 0
            IN IF assigned
               THEN last'.events = <<[kind |-> "RegisterSucceeded", who |-> c,
                                      name |-> x, prev |-> p]>>
               ELSE last'.events = << >>]_vars

\* the name was taken over and the event names the account that lost it,
\* which still has its FundToLock locked
C26_Witness ==
    /\ last.op = "reveal" /\ last.result = "Ok"
    /\ \E p \in Accounts \ {last.origin} :
          /\ last.events = <<[kind |-> "RegisterSucceeded", who |-> last.origin,
                              name |-> last.name, prev |-> p]>>
          /\ locks[p].exists

\* C21 as stated: while an account owns x on the strength of a commit made
\* at block won[x], a reveal makes another account c the owner of x only if
\* the commit of c was made at a block before won[x], whatever commits,
\* renews and reveals came in between.
C21_EarliestCommitterWins ==
    [][\A c \in Accounts, x \in Names :
        (/\ IsReveal(c, x)
         /\ x \in DOMAIN Committers /\ Committers[x].id # c
         /\ RevealKey(c, x) \in DOMAIN LockPeriods
         /\ x \in DOMAIN Committers' /\ Committers'[x].id = c)
            => b_new(c, x) < won[x]]_vars

\* C25 as stated: the amount update_locked_fund locks for k commit rows is
\* min(k * FundToLock, MaxBalance): the call neither wraps nor aborts.
C25_LockSaturates ==
    (last.op = "commit" /\ last.origin \in Accounts) =>
        /\ last.result = "Ok"
        /\ LET k == Cardinality({key \in DOMAIN LockPeriods : key[1] = last.origin})
               product == k * FundToLock
           IN locks[last.origin] =
                 [exists |-> TRUE,
                  amount |-> IF product <= MaxBalance THEN product ELSE MaxBalance]
====
